---- MODULE Spec2Model ----
(***************************************************************************)
(* Model of Metagenomics_pipeline/kraken_abundance_pipeline.py:            *)
(*   process_sample            (lines 11-35)                               *)
(*   aggregate_kraken_results  (lines 39-103)                              *)
(*                                                                         *)
(* Text (str) is a sequence of symbols.  In every text the program joins,  *)
(* splits, strips or converts, the separators "/", "_", TAB, the blank and *)
(* the line end are symbols of their own and so is each decimal digit; any *)
(* other symbol stands for a run of characters holding none of these.  A   *)
(* column name is written as one symbol: the program never takes it apart. *)
(***************************************************************************)
EXTENDS Integers, Sequences, FiniteSets, TLC

VARIABLES
    \* ---- process_sample ----
    args,            \* the arguments of the call
    disk,            \* paths that exist on disk
    p_pc,            \* position in process_sample
    calls,           \* collaborator invocations so far, in order
    running,         \* the collaborator that has been started and not returned
    writes,          \* paths written since the call began
    trimmed,         \* (trimmed_forward, trimmed_reverse)
    unmapped,        \* (unmapped_r1, unmapped_r2)
    kraken_report,   \* local kraken_report
    p_result,        \* what the caller receives
    p_raised,        \* an exception reached the caller
    stdout,          \* lines printed
    \* ---- aggregate_kraken_results ----
    call,            \* the arguments of the call and what the file system holds
    a_pc,            \* position in aggregate_kraken_results
    metadata,        \* local metadata (the table chosen)
    sample_id_col,   \* local sample_id_col
    aggregated_results, \* dict, as its items in insertion order
    sampleid,        \* list sampleid
    fidx,            \* position in os.listdir(kraken_dir)
    in_file,         \* a report is open and being read
    opened,          \* the files opened for reading so far
    rows_read,       \* every line read so far: its file, its text, its fields
    merged_tsv,      \* lines of merged_kraken1.tsv written by this call
    sample_ids_csv,  \* lines of sample_ids.csv written by this call
    a_result         \* what the caller receives

pvars == <<args, disk, p_pc, calls, running, writes, trimmed, unmapped,
           kraken_report, p_result, p_raised, stdout>>

avars == <<call, a_pc, metadata, sample_id_col, aggregated_results, sampleid,
           fidx, in_file, opened, rows_read, merged_tsv, sample_ids_csv, a_result>>

vars == <<pvars, avars>>

\* Python's None, and a local not yet bound.
None == <<"<None>">>
Unbound == <<"<unbound>">>
NoPair == <<Unbound, Unbound>>

TAB == "\t"

-----------------------------------------------------------------------------
(* os.path.join(a, b) for two components (posixpath.join).                 *)
path_join(a, b) ==
    IF b # <<>> /\ b[1] = "/" THEN b
    ELSE IF a = <<>> \/ a[Len(a)] = "/" THEN a \o b
    ELSE a \o <<"/">> \o b

(* f"{base_name}_report.txt" *)
report_name(base) == base \o <<"_", "report.txt">>

(* os.path.exists(p) *)
path_exists(p) == p \in disk

-----------------------------------------------------------------------------
(* Inputs of process_sample.                                               *)
BaseNames == { <<"s", "1">>, <<"s", "_", "2">> }
OutputDirs == { <<"out">>, <<"data", "/", "run">> }
Forward == <<"r1.fq">>
Reverse == <<"r2.fq">>
Bowtie2Index == <<"host">>
KrakenDb == <<"k2db">>
Threads == <<"8">>

ProcessArgs ==
    [ forward : {Forward}, reverse : {Reverse}, base_name : BaseNames,
      bowtie2_index : {Bowtie2Index}, kraken_db : {KrakenDb},
      output_dir : OutputDirs, threads : {Threads},
      run_bowtie : BOOLEAN, use_precomputed_reports : BOOLEAN ]

ReportPaths == { path_join(d, report_name(b)) : d \in OutputDirs, b \in BaseNames }

(* What the collaborators (out of this file) may hand back: pairs of paths *)
(* of the files they produced, or the report path.                         *)
TrimmerPairs == { << <<"t1.a.fq">>, <<"t2.a.fq">> >>, << <<"t1.b.fq">>, <<"t2.b.fq">> >> }
AlignerPairs == { << <<"u1.a.fq">>, <<"u2.a.fq">> >>, << <<"u1.b.fq">>, <<"u2.b.fq">> >> }
ClassifierReports(a) ==
    { path_join(a.output_dir, report_name(a.base_name)), <<"other", "_", "report.txt">> }

PairFiles(p) == { p[1], p[2] }

-----------------------------------------------------------------------------
(* Mutant: no try/except, the exception reaches the caller.                *)
ExceptHandler_Propagates(msg) ==
    /\ p_raised' = TRUE
    /\ p_pc' = "done"
    /\ UNCHANGED <<p_result, stdout>>

(* except Exception as e: print(...); return None        (lines 33-35)     *)
ExceptHandler(msg) ==
    /\ stdout' = Append(stdout, <<"Error processing sample", args.base_name, msg>>)
    /\ p_result' = None
    /\ p_raised' = FALSE
    /\ p_pc' = "done"

(* The last collaborator invocation ends: it returned `output`, or raised. *)
Finished(outcome, output) ==
    [calls EXCEPT ![Len(calls)].outcome = outcome, ![Len(calls)].output = output]

(* A collaborator is started: the call is logged when control enters it.   *)
StartTool(tool, from, inputs) ==
    /\ p_pc = from
    /\ running = "none"
    /\ running' = tool
    /\ calls' = Append(calls, [tool |-> tool, inputs |-> inputs,
                                outcome |-> "running", output |-> Unbound])
    /\ UNCHANGED <<args, disk, p_pc, writes, trimmed, unmapped, kraken_report,
                   p_result, p_raised, stdout>>
    /\ UNCHANGED avars

(* Step 1, line 15: the call of run_trimmomatic.                           *)
CallTrimmomatic ==
    /\ ~args.use_precomputed_reports
    /\ StartTool("run_trimmomatic", "start",
                 <<args.forward, args.reverse, args.base_name, args.output_dir, args.threads>>)

(* Line 15: run_trimmomatic returns and its pair is unpacked.              *)
TrimmomaticReturns ==
    /\ p_pc = "start" /\ running = "run_trimmomatic"
    /\ \E pair \in TrimmerPairs :
        /\ trimmed' = pair
        /\ writes' = writes \cup PairFiles(pair)
        /\ disk' = disk \cup PairFiles(pair)
        /\ calls' = Finished("returned", pair)
    /\ running' = "none"
    /\ p_pc' = "step2"
    /\ UNCHANGED <<args, unmapped, kraken_report, p_result, p_raised, stdout>>
    /\ UNCHANGED avars

(* Line 15: run_trimmomatic raises, or returns something that is no pair   *)
(* (the unpacking raises).                                                 *)
TrimmomaticRaises ==
    /\ p_pc = "start" /\ running = "run_trimmomatic"
    /\ \E msg \in {"trimmer failed", "cannot unpack"} : ExceptHandler(msg)
    /\ running' = "none"
    /\ calls' = Finished("raised", Unbound)
    /\ UNCHANGED <<args, disk, writes, trimmed, unmapped, kraken_report>>
    /\ UNCHANGED avars

(* Step 2, lines 18-19: the call of run_bowtie2.                           *)
CallBowtie2 ==
    /\ args.run_bowtie
    /\ StartTool("run_bowtie2", "step2",
                 <<trimmed[1], trimmed[2], args.base_name, args.bowtie2_index,
                   args.output_dir, args.threads>>)

BowtieReturns ==
    /\ p_pc = "step2" /\ running = "run_bowtie2"
    /\ \E pair \in AlignerPairs :
        /\ unmapped' = pair
        /\ writes' = writes \cup PairFiles(pair)
        /\ disk' = disk \cup PairFiles(pair)
        /\ calls' = Finished("returned", pair)
    /\ running' = "none"
    /\ p_pc' = "step3"
    /\ UNCHANGED <<args, trimmed, kraken_report, p_result, p_raised, stdout>>
    /\ UNCHANGED avars

BowtieRaises ==
    /\ p_pc = "step2" /\ running = "run_bowtie2"
    /\ \E msg \in {"aligner failed", "cannot unpack"} : ExceptHandler(msg)
    /\ running' = "none"
    /\ calls' = Finished("raised", Unbound)
    /\ UNCHANGED <<args, disk, writes, trimmed, unmapped, kraken_report>>
    /\ UNCHANGED avars

(* Lines 20-21: no depletion, the trimmed pair is passed on.               *)
SkipBowtie2 ==
    /\ p_pc = "step2" /\ running = "none"
    /\ ~args.run_bowtie
    /\ unmapped' = trimmed
    /\ p_pc' = "step3"
    /\ UNCHANGED <<args, disk, calls, running, writes, trimmed, kraken_report,
                   p_result, p_raised, stdout>>
    /\ UNCHANGED avars

(* Mutant: the classifier is always given the trimmed pair.                *)
CallKraken2_Trimmed ==
    StartTool("run_kraken2", "step3",
              <<trimmed[1], trimmed[2], args.base_name, args.kraken_db,
                args.output_dir, args.threads>>)

(* Step 3, line 24: the call of run_kraken2.                               *)
CallKraken2 ==
    StartTool("run_kraken2", "step3",
              <<unmapped[1], unmapped[2], args.base_name, args.kraken_db,
                args.output_dir, args.threads>>)

KrakenReturns ==
    /\ p_pc = "step3" /\ running = "run_kraken2"
    /\ \E rep \in ClassifierReports(args) :
        /\ kraken_report' = rep
        /\ writes' = writes \cup {rep}
        /\ disk' = disk \cup {rep}
        /\ calls' = Finished("returned", rep)
    /\ running' = "none"
    /\ p_pc' = "return"
    /\ UNCHANGED <<args, trimmed, unmapped, p_result, p_raised, stdout>>
    /\ UNCHANGED avars

KrakenRaises ==
    /\ p_pc = "step3" /\ running = "run_kraken2"
    /\ ExceptHandler("classifier failed")
    /\ running' = "none"
    /\ calls' = Finished("raised", Unbound)
    /\ UNCHANGED <<args, disk, writes, trimmed, unmapped, kraken_report>>
    /\ UNCHANGED avars

(* Mutant: the path is returned without the os.path.exists test.           *)
UsePrecomputed_NoCheck ==
    /\ p_pc = "start" /\ running = "none"
    /\ args.use_precomputed_reports
    /\ kraken_report' = path_join(args.output_dir, report_name(args.base_name))
    /\ p_pc' = "return"
    /\ UNCHANGED <<args, disk, calls, running, writes, trimmed, unmapped,
                   p_result, p_raised, stdout>>
    /\ UNCHANGED avars

(* Lines 25-29: the precomputed report.                                    *)
UsePrecomputed ==
    /\ p_pc = "start" /\ running = "none"
    /\ args.use_precomputed_reports
    /\ LET report == path_join(args.output_dir, report_name(args.base_name)) IN
        /\ kraken_report' = report
        /\ IF ~path_exists(report)
           THEN ExceptHandler("Precomputed Kraken2 report not found")
           ELSE /\ p_pc' = "return"
                /\ UNCHANGED <<p_result, p_raised, stdout>>
    /\ UNCHANGED <<args, disk, calls, running, writes, trimmed, unmapped>>
    /\ UNCHANGED avars

(* Line 31: return kraken_report.                                          *)
ReturnReport ==
    /\ p_pc = "return"
    /\ p_result' = kraken_report
    /\ p_pc' = "done"
    /\ UNCHANGED <<args, disk, calls, running, writes, trimmed, unmapped,
                   kraken_report, p_raised, stdout>>
    /\ UNCHANGED avars

-----------------------------------------------------------------------------
(* Text helpers.                                                           *)
Whitespace == {" ", TAB, "\n"}

RECURSIVE lstrip(_)
lstrip(t) == IF t # <<>> /\ t[1] \in Whitespace THEN lstrip(Tail(t)) ELSE t

RECURSIVE rstrip(_)
rstrip(t) ==
    IF t # <<>> /\ t[Len(t)] \in Whitespace THEN rstrip(SubSeq(t, 1, Len(t) - 1)) ELSE t

(* str.strip() *)
strip(t) == rstrip(lstrip(t))

RECURSIVE split_from(_, _, _, _)
split_from(t, sep, i, cur) ==
    IF i > Len(t) THEN <<cur>>
    ELSE IF t[i] = sep THEN <<cur>> \o split_from(t, sep, i + 1, <<>>)
    ELSE split_from(t, sep, i + 1, Append(cur, t[i]))

(* str.split(sep): never empty, '' splits into [''].                       *)
split(t, sep) == split_from(t, sep, 1, <<>>)

RECURSIVE join(_, _)
(* sep.join(parts) *)
join(parts, sep) ==
    IF parts = <<>> THEN <<>>
    ELSE IF Len(parts) = 1 THEN parts[1]
    ELSE parts[1] \o <<sep>> \o join(Tail(parts), sep)

(* str.endswith("_report.txt") *)
endswith_report(name) ==
    Len(name) >= 2 /\ SubSeq(name, Len(name) - 1, Len(name)) = <<"_", "report.txt">>

Digits == <<"0", "1", "2", "3", "4", "5", "6", "7", "8", "9">>
DigitSet == { Digits[i] : i \in 1..Len(Digits) }
digit_value(d) == (CHOOSE i \in 1..Len(Digits) : Digits[i] = d) - 1

(* int(s) succeeds: a non-empty run of decimal digits.                     *)
is_int(t) == t # <<>> /\ \A i \in 1..Len(t) : t[i] \in DigitSet

RECURSIVE int(_)
int(t) == IF t = <<>> THEN 0 ELSE int(SubSeq(t, 1, Len(t) - 1)) * Len(Digits) + digit_value(t[Len(t)])

RECURSIVE int_str(_)
(* str(n) of a non-negative int.                                           *)
int_str(n) ==
    IF n < Len(Digits) THEN <<Digits[n + 1]>>
    ELSE int_str(n \div Len(Digits)) \o <<Digits[(n % Len(Digits)) + 1]>>

(* Values held in a record: a str or an int.                               *)
StrV(t) == [t |-> "str", s |-> t, n |-> 0]
IntV(n) == [t |-> "int", s |-> <<>>, n |-> n]
(* str(v) *)
py_str(v) == IF v.t = "int" THEN int_str(v.n) ELSE v.s

-----------------------------------------------------------------------------
(* Inputs of aggregate_kraken_results.                                     *)
MaxFiles == 2
MaxRows == 3

(* Sample ids; A_1 with taxon 23 and A_12 with taxon 3 give the same key.   *)
A_1 == <<"a", "_", "1">>
A_12 == <<"a", "_", "1", "2">>

(* Entries os.listdir(kraken_dir) may hold.                                *)
DirEntries ==
    { report_name(A_1), report_name(A_12), <<"merged", "_", "kraken1.tsv">> }

Listings ==
    { l \in UNION { [1..n -> DirEntries] : n \in 0..MaxFiles } :
        \A i, j \in 1..Len(l) : i # j => l[i] # l[j] }

line_of(fields) == join(fields, TAB) \o <<"\n">>

(* Lines a report may hold: well-formed rows, and malformed ones.          *)
RowHomo == line_of(<< <<" ", "2", ".", "5">>, <<"9", "0">>, <<"5", "0">>,
                      <<"S">>, <<"2", "3">>, <<"Homo">> >>)
RowPan == line_of(<< <<"3", ".", "1">>, <<"4", "0">>, <<"3", "0">>,
                     <<"S">>, <<"3">>, <<"Pan">> >>)
RowGenus == line_of(<< <<"3", ".", "1">>, <<"6", "0">>, <<"5", "0">>,
                       <<"G">>, <<"3">>, <<"Homo">> >>)
RowFew == line_of(<< <<"0", ".", "7">>, <<"9">>, <<"7">>,
                     <<"S">>, <<"2", "3">>, <<"Pan">> >>)
RowShort == line_of(<< <<"2", ".", "5">>, <<"9", "0">>, <<"5", "0">>,
                       <<"S">>, <<"2", "3">>, <<>> >>)
RowNotInt == line_of(<< <<"2", ".", "5">>, <<"9", "0">>, <<"x">>,
                        <<"S">>, <<"2", "3">>, <<"Homo">> >>)
RowBlank == <<"\n">>

ReportLines == { RowHomo, RowPan, RowGenus, RowFew, RowShort, RowNotInt, RowBlank }

(* Metadata tables (pandas DataFrame): column names, then rows.            *)
NoTable == [given |-> FALSE, columns |-> <<>>, rows |-> <<>>]
TableSites ==
    [given |-> TRUE, columns |-> <<"ID", "Site">>,
     rows |-> << <<A_1, <<"kenya">> >>, <<A_12, <<"mali">> >> >>]
TableClinic ==
    [given |-> TRUE, columns |-> <<"Sample", "SampleID", "Note">>,
     rows |-> << <<A_1, <<"P", "7">>, <<"a", TAB, "b">> >>,
                 <<<<"b">>, <<"P", "8">>, <<"ok">> >>,
                 <<A_1, <<"P", "9">>, <<"dup">> >> >>]

ReadCounts == { int(<<"0">>), int(<<"3", "0">>) }

KrakenDir == <<"kraken">>
MetadataPath == <<"meta.csv">>

(* metadata_file: None or a path; file_table: what pd.read_csv gives when  *)
(* the path exists; sample_id_df: None (NoTable) or a table.               *)
Calls ==
    { c \in [ kraken_dir : {KrakenDir},
              metadata_file : {None, MetadataPath},
              file_exists : BOOLEAN,
              file_table : {TableSites},
              sample_id_df : {NoTable, TableClinic},
              read_count : ReadCounts,
              listing : Listings ] :
        c.metadata_file = None => ~c.file_exists }

-----------------------------------------------------------------------------
FixedHeaders ==
    <<"Perc_frag_cover", "Nr_frag_cover", "Nr_frag_direct_at_taxon", "Rank_code",
      "NCBI_ID", "Scientific_name", "SampleID">>

(* metadata.columns[1:].tolist() *)
columns_tail(m) == SubSeq(m.columns, 2, Len(m.columns))

(* Line 89. *)
headers_of(m) == FixedHeaders \o columns_tail(m)

(* metadata[sample_id_col]: the values of the column of that name.         *)
column_values(m, col) ==
    LET c == CHOOSE i \in 1..Len(m.columns) : m.columns[i] = col
    IN [ i \in 1..Len(m.rows) |-> m.rows[i][c] ]

(* Line 72: extracted_part in metadata[sample_id_col].unique() *)
in_metadata(m, col, id) ==
    \E i \in 1..Len(m.rows) : column_values(m, col)[i] = id

(* Line 73: metadata.loc[metadata[col] == id].iloc[0].to_dict() *)
sample_metadata_of(m, col, id) ==
    LET vals == column_values(m, col)
        first == CHOOSE i \in 1..Len(m.rows) :
                    /\ vals[i] = id
                    /\ \A j \in 1..(i - 1) : vals[j] # id
    IN [ c \in { m.columns[k] : k \in 1..Len(m.columns) } |->
            StrV(m.rows[first][CHOOSE k \in 1..Len(m.columns) : m.columns[k] = c]) ]

(* Lines 74-83: the dict literal; later entries replace earlier ones, so   *)
(* **sample_metadata is applied last.                                      *)
build_record(fields, count, extracted_part, sample_metadata) ==
    sample_metadata @@
    [ Perc_frag_cover |-> StrV(fields[1]),
      Nr_frag_cover |-> StrV(fields[2]),
      Nr_frag_direct_at_taxon |-> IntV(count),
      Rank_code |-> StrV(fields[4]),
      NCBI_ID |-> StrV(fields[5]),
      Scientific_name |-> StrV(fields[6]),
      SampleID |-> StrV(extracted_part) ]

(* Mutant: a key already present keeps its first record.                   *)
dict_set_KeepFirst(d, key, data) ==
    IF \E i \in 1..Len(d) : d[i].key = key
    THEN d
    ELSE Append(d, [key |-> key, data |-> data])

(* Line 74: aggregated_results[key] = data; a dict keeps the position of   *)
(* a key already present.                                                  *)
dict_set(d, key, data) ==
    IF \E i \in 1..Len(d) : d[i].key = key
    THEN [ i \in 1..Len(d) |-> IF d[i].key = key THEN [key |-> key, data |-> data] ELSE d[i] ]
    ELSE Append(d, [key |-> key, data |-> data])

(* Lines 67-68: the sample id derived from the file name.                  *)
extract_sample(file_name) ==
    LET parts == split(file_name, "_")
    IN join(SubSeq(parts, 1, Len(parts) - 1), "_")

(* Mutant: the threshold is exclusive.                                     *)
passes_filter_Strict(rank_code, count, read_count) ==
    rank_code = <<"S">> /\ count > read_count

(* Line 71: the row filter.                                                *)
passes_filter(rank_code, count, read_count) ==
    rank_code = <<"S">> /\ count >= read_count

(* Lines 60-66: the row parses (no IndexError, no ValueError).             *)
row_parses(fields) == Len(fields) >= 6 /\ is_int(fields[3])

(* Lines 92: one data row of the merged table.                             *)
merged_line(hdrs, data) ==
    join([ i \in 1..Len(hdrs) |-> py_str(data[hdrs[i]]) ], TAB) \o <<"\n">>

(* Mutant: the in-memory table is preferred to the file.                   *)
resolve_metadata_PrefersDf(c) ==
    IF c.sample_id_df.given THEN c.sample_id_df
    ELSE IF c.metadata_file # None /\ c.file_exists THEN c.file_table
    ELSE NoTable

(* Lines 42-49: which table is used; NoTable when the ValueError is raised. *)
resolve_metadata(c) ==
    IF c.metadata_file # None /\ c.file_exists THEN c.file_table
    ELSE IF c.sample_id_df.given THEN c.sample_id_df
    ELSE NoTable

-----------------------------------------------------------------------------
(* Mutant: the error is printed and the scan goes on.                      *)
AggExcept_Continue(msg) ==
    /\ stdout' = Append(stdout, <<"Error aggregating Kraken results", msg>>)
    /\ UNCHANGED <<a_result, a_pc>>

(* Mutant: only the rows kept for the merged table are listed.             *)
process_row_ListKept(m, col, read_count, results, ids, file_name, fields) ==
    LET count == int(fields[3])
        extracted_part == extract_sample(file_name)
        keep == /\ passes_filter(fields[4], count, read_count)
                /\ in_metadata(m, col, extracted_part)
    IN [ sampleid |-> IF keep THEN Append(ids, extracted_part) ELSE ids,
         aggregated_results |->
            IF keep
            THEN dict_set(results, extracted_part \o fields[5],
                          build_record(fields, count, extracted_part,
                                       sample_metadata_of(m, col, extracted_part)))
            ELSE results ]

(* Lines 61-83: a parsed row is listed, and kept when it passes the filter *)
(* and its sample is in the metadata.                                      *)
process_row(m, col, read_count, results, ids, file_name, fields) ==
    LET perc_frag_cover == fields[1]
        nr_frag_cover == fields[2]
        nr_frag_direct_at_taxon == int(fields[3])
        rank_code == fields[4]
        ncbi_ID == fields[5]
        scientific_name == fields[6]
        extracted_part == extract_sample(file_name)
        sampleandtaxonid == extracted_part \o ncbi_ID
    IN [ sampleid |-> Append(ids, extracted_part),
         aggregated_results |->
            IF /\ passes_filter(rank_code, nr_frag_direct_at_taxon, read_count)
               /\ in_metadata(m, col, extracted_part)
            THEN dict_set(results, sampleandtaxonid,
                          build_record(fields, nr_frag_direct_at_taxon, extracted_part,
                                       sample_metadata_of(m, col, extracted_part)))
            ELSE results ]

(* except Exception as e: print(...); return None       (lines 101-103)    *)
AggExcept(msg) ==
    /\ stdout' = Append(stdout, <<"Error aggregating Kraken results", msg>>)
    /\ a_result' = None
    /\ a_pc' = "done"

(* Lines 42-53. *)
ResolveMetadata ==
    /\ a_pc = "start"
    /\ LET m == resolve_metadata(call) IN
        IF m.given
        THEN /\ metadata' = m
             /\ sample_id_col' = m.columns[1]
             /\ aggregated_results' = <<>>
             /\ sampleid' = <<>>
             /\ a_pc' = "scan"
             /\ UNCHANGED <<a_result, stdout>>
        ELSE /\ AggExcept("No metadata provided, and sample_id_df is None.")
             /\ UNCHANGED <<metadata, sample_id_col, aggregated_results, sampleid>>
    /\ UNCHANGED <<call, fidx, in_file, opened, rows_read, merged_tsv, sample_ids_csv>>
    /\ UNCHANGED <<args, disk, p_pc, calls, running, writes, trimmed, unmapped,
                   kraken_report, p_result, p_raised>>

(* Lines 56-57: a directory entry that is no report is passed over.        *)
SkipEntry ==
    /\ a_pc = "scan" /\ ~in_file
    /\ fidx <= Len(call.listing)
    /\ ~endswith_report(call.listing[fidx])
    /\ fidx' = fidx + 1
    /\ UNCHANGED <<call, a_pc, metadata, sample_id_col, aggregated_results, sampleid,
                   in_file, opened, rows_read, merged_tsv, sample_ids_csv, a_result>>
    /\ UNCHANGED pvars

(* Line 58: open the report.                                               *)
OpenReport ==
    /\ a_pc = "scan" /\ ~in_file
    /\ fidx <= Len(call.listing)
    /\ endswith_report(call.listing[fidx])
    /\ in_file' = TRUE
    /\ opened' = Append(opened, call.listing[fidx])
    /\ UNCHANGED <<call, a_pc, metadata, sample_id_col, aggregated_results, sampleid,
                   fidx, rows_read, merged_tsv, sample_ids_csv, a_result>>
    /\ UNCHANGED pvars

(* Lines 59-83: one iteration of `for line in f`.                          *)
ReadLine ==
    /\ a_pc = "scan" /\ in_file
    /\ Len(rows_read) < MaxRows
    /\ \E line \in ReportLines :
        LET file_name == call.listing[fidx]
            fields == split(strip(line), TAB)
        IN
        /\ rows_read' = Append(rows_read, [file |-> file_name, line |-> line,
                                            fields |-> fields])
        /\ IF ~row_parses(fields)
           THEN /\ AggExcept("malformed row")
                /\ UNCHANGED <<aggregated_results, sampleid>>
           ELSE LET after == process_row(metadata, sample_id_col, call.read_count,
                                         aggregated_results, sampleid, file_name, fields)
                IN
                /\ sampleid' = after.sampleid
                /\ aggregated_results' = after.aggregated_results
                /\ UNCHANGED <<a_pc, a_result, stdout>>
    /\ UNCHANGED <<call, metadata, sample_id_col, fidx, in_file, opened,
                   merged_tsv, sample_ids_csv>>
    /\ UNCHANGED <<args, disk, p_pc, calls, running, writes, trimmed, unmapped,
                   kraken_report, p_result, p_raised>>

(* End of the file: the with-block closes it, on to the next entry.        *)
CloseReport ==
    /\ a_pc = "scan" /\ in_file
    /\ in_file' = FALSE
    /\ fidx' = fidx + 1
    /\ UNCHANGED <<call, a_pc, metadata, sample_id_col, aggregated_results, sampleid,
                   opened, rows_read, merged_tsv, sample_ids_csv, a_result>>
    /\ UNCHANGED pvars

(* Lines 86-92: the merged table is written, header first.                 *)
WriteMerged ==
    /\ a_pc = "scan" /\ ~in_file
    /\ fidx > Len(call.listing)
    /\ LET headers == headers_of(metadata) IN
        merged_tsv' =
            <<join([ i \in 1..Len(headers) |-> <<headers[i]>> ], TAB) \o <<"\n">> >> \o
            [ i \in 1..Len(aggregated_results) |->
                merged_line(headers, aggregated_results[i].data) ]
    /\ a_pc' = "write_ids"
    /\ UNCHANGED <<call, metadata, sample_id_col, aggregated_results, sampleid,
                   fidx, in_file, opened, rows_read, sample_ids_csv, a_result>>
    /\ UNCHANGED pvars

(* Lines 95-97: the sample-id list is written, one entry per line under    *)
(* the column name (no entry of the model needs CSV quoting).              *)
WriteSampleIds ==
    /\ a_pc = "write_ids"
    /\ sample_ids_csv' = << <<"Sample_IDs">> >> \o sampleid
    /\ a_pc' = "return"
    /\ UNCHANGED <<call, metadata, sample_id_col, aggregated_results, sampleid,
                   fidx, in_file, opened, rows_read, merged_tsv, a_result>>
    /\ UNCHANGED pvars

(* Line 99: return merged_tsv_path.                                        *)
ReturnMerged ==
    /\ a_pc = "return"
    /\ a_result' = path_join(call.kraken_dir, <<"merged", "_", "kraken1.tsv">>)
    /\ a_pc' = "done"
    /\ UNCHANGED <<call, metadata, sample_id_col, aggregated_results, sampleid,
                   fidx, in_file, opened, rows_read, merged_tsv, sample_ids_csv>>
    /\ UNCHANGED pvars

-----------------------------------------------------------------------------
NotWritten == << <<"<not written>">> >>

IdleCall ==
    [ kraken_dir |-> KrakenDir, metadata_file |-> None, file_exists |-> FALSE,
      file_table |-> TableSites, sample_id_df |-> NoTable,
      read_count |-> int(<<"0">>), listing |-> <<>> ]

AggregateStart ==
    /\ a_pc = "start"
    /\ metadata = NoTable
    /\ sample_id_col = "<unbound>"
    /\ aggregated_results = <<>>
    /\ sampleid = <<>>
    /\ fidx = 1
    /\ in_file = FALSE
    /\ opened = <<>>
    /\ rows_read = <<>>
    /\ merged_tsv = NotWritten
    /\ sample_ids_csv = NotWritten
    /\ a_result = Unbound

ProcessStart ==
    /\ p_pc = "start"
    /\ calls = <<>>
    /\ running = "none"
    /\ writes = {}
    /\ trimmed = NoPair
    /\ unmapped = NoPair
    /\ kraken_report = Unbound
    /\ p_result = Unbound
    /\ p_raised = FALSE
    /\ stdout = <<>>

InitProcess ==
    /\ args \in ProcessArgs
    /\ disk \in SUBSET ReportPaths
    /\ ProcessStart
    /\ call = IdleCall
    /\ AggregateStart

InitAggregate ==
    /\ call \in Calls
    /\ AggregateStart
    /\ args = CHOOSE a \in ProcessArgs : TRUE
    /\ disk = {}
    /\ ProcessStart

NextProcess ==
    \/ CallTrimmomatic
    \/ TrimmomaticReturns
    \/ TrimmomaticRaises
    \/ CallBowtie2
    \/ BowtieReturns
    \/ BowtieRaises
    \/ SkipBowtie2
    \/ CallKraken2
    \/ KrakenReturns
    \/ KrakenRaises
    \/ UsePrecomputed
    \/ ReturnReport

NextAggregate ==
    \/ ResolveMetadata
    \/ SkipEntry
    \/ OpenReport
    \/ ReadLine
    \/ CloseReport
    \/ WriteMerged
    \/ WriteSampleIds
    \/ ReturnMerged

SpecProcess == InitProcess /\ [][NextProcess]_vars

SpecAggregate == InitAggregate /\ [][NextAggregate]_vars

-----------------------------------------------------------------------------
(* Properties of process_sample.                                           *)

(* <output_dir>/<sample_id>_report.txt, written out in full.               *)
ExpectedReport == args.output_dir \o <<"/">> \o args.base_name \o <<"_", "report.txt">>

ToolNames(cs) == [ i \in 1..Len(cs) |-> cs[i].tool ]

CallsOf(tool) == { i \in 1..Len(calls) : calls[i].tool = tool }

(* C1: in precomputed mode process_sample starts no collaborator and       *)
(* writes nothing; it returns <output_dir>/<sample_id>_report.txt when     *)
(* the file exists and None when it does not.                              *)
C1_PrecomputedFrame ==
    args.use_precomputed_reports =>
        /\ calls = <<>>
        /\ running = "none"
        /\ writes = {}
        /\ p_pc = "done" =>
            /\ ~p_raised
            /\ p_result = IF ExpectedReport \in disk THEN ExpectedReport ELSE None

C1_Witness ==
    /\ args.use_precomputed_reports
    /\ args.run_bowtie
    /\ p_pc = "done"
    /\ ExpectedReport \in disk
    /\ p_result = ExpectedReport

(* C2: without precomputed reports the collaborators are started in the    *)
(* order trimmer, aligner (only with run_bowtie, and then always before    *)
(* the classifier), classifier, each after the one before has returned;    *)
(* the aligner is given the trimmer's pair, the classifier the aligner's   *)
(* pair when depletion ran and the trimmer's pair otherwise; the result    *)
(* is the classifier's report path.                                        *)
ToolOrder ==
    IF args.run_bowtie
    THEN <<"run_trimmomatic", "run_bowtie2", "run_kraken2">>
    ELSE <<"run_trimmomatic", "run_kraken2">>

C2_SequentialOrder ==
    ~args.use_precomputed_reports =>
        /\ Len(calls) <= Len(ToolOrder)
        /\ ToolNames(calls) = SubSeq(ToolOrder, 1, Len(calls))
        /\ \A i \in 1..(Len(calls) - 1) : calls[i].outcome = "returned"
        /\ \A i \in CallsOf("run_bowtie2") :
            <<calls[i].inputs[1], calls[i].inputs[2]>> = calls[1].output
        /\ \A i \in CallsOf("run_kraken2") :
            <<calls[i].inputs[1], calls[i].inputs[2]>> =
                IF args.run_bowtie THEN calls[2].output ELSE calls[1].output
        /\ \A i \in CallsOf("run_kraken2") :
            (p_pc = "done" /\ calls[i].outcome = "returned") => p_result = calls[i].output
        /\ (p_pc = "done" /\ p_result # None) =>
            /\ Len(calls) = Len(ToolOrder)
            /\ calls[Len(calls)].outcome = "returned"

C2_Witness ==
    /\ ~args.use_precomputed_reports
    /\ args.run_bowtie
    /\ p_pc = "done"
    /\ ToolNames(calls) = <<"run_trimmomatic", "run_bowtie2", "run_kraken2">>
    /\ <<calls[3].inputs[1], calls[3].inputs[2]>> = calls[2].output
    /\ p_result = calls[3].output

-----------------------------------------------------------------------------
(* Properties of aggregate_kraken_results, stated over the lines read.     *)

(* The sample id of a report: its file name without "_report.txt".         *)
DerivedId(file_name) == SubSeq(file_name, 1, Len(file_name) - Len(report_name(<<>>)))

(* The identifier (first) column of the table in use.                      *)
MetadataIds == { metadata.rows[i][1] : i \in 1..Len(metadata.rows) }

(* A line read, with what the properties say of it:                        *)
(*   malformed: fewer than six fields, or a third field that is no integer *)
(*   qualifies: rank code S, direct count >= read_count, sample id in the  *)
(*              identifier column                                          *)
(*   key:       sample id followed by the taxon id                         *)
RowRead(h) ==
    LET f == h.fields
        bad == Len(f) < 6 \/ ~is_int(f[3])
        id == DerivedId(h.file)
    IN [ file |-> h.file, line |-> h.line, fields |-> f, id |-> id,
         malformed |-> bad,
         qualifies |-> /\ ~bad
                       /\ f[4] = <<"S">>
                       /\ int(f[3]) >= call.read_count
                       /\ id \in MetadataIds,
         key |-> IF bad THEN <<>> ELSE id \o f[5] ]

History == [ j \in 1..Len(rows_read) |-> RowRead(rows_read[j]) ]

QualifyingIdx(H) == { j \in DOMAIN H : H[j].qualifies }
QualifyingKeys(H) == { H[j].key : j \in QualifyingIdx(H) }

MergedWritten == merged_tsv # NotWritten
Succeeded == a_pc = "done" /\ a_result # None

(* The data rows of the merged table, each re-read by splitting on the tab. *)
MergedRows ==
    [ i \in 1..(Len(merged_tsv) - 1) |->
        split(SubSeq(merged_tsv[i + 1], 1, Len(merged_tsv[i + 1]) - 1), TAB) ]

(* C4: a record is in the merged table only for rows of rank code S whose  *)
(* direct count is >= read_count and whose sample id is in the first       *)
(* metadata column, and every such row has a record under its key.         *)
C4_FilteredRecords ==
    Succeeded =>
        LET H == History
            M == MergedRows
        IN
        /\ Len(M) = Len(aggregated_results)
        /\ \A i \in 1..Len(aggregated_results) :
            /\ M[i][4] = <<"S">>
            /\ int(M[i][3]) >= call.read_count
            /\ \E j \in QualifyingIdx(H) :
                /\ H[j].key = aggregated_results[i].key
                /\ M[i][5] = H[j].fields[5]
                /\ M[i][6] = H[j].fields[6]
        /\ \A j \in QualifyingIdx(H) :
            \E i \in 1..Len(aggregated_results) : aggregated_results[i].key = H[j].key

C4_Witness ==
    /\ Succeeded
    /\ call.read_count = int(<<"3", "0">>)
    /\ Len(aggregated_results) = 1
    /\ LET H == History IN
        /\ \E j \in QualifyingIdx(H) : H[j].line = RowPan
        /\ \E j \in DOMAIN H : H[j].line = RowGenus
        /\ \E j \in DOMAIN H : H[j].line = RowFew /\ H[j].id \in MetadataIds

(* C5: the merged table holds one record per distinct key; when several    *)
(* qualifying rows share a key the record is the one of the row processed  *)
(* last, and each of the rows has its own entry in the sample-id list.     *)
LastFor(H, key) ==
    CHOOSE j \in QualifyingIdx(H) :
        /\ H[j].key = key
        /\ \A k \in QualifyingIdx(H) : H[k].key = key => k <= j

RecordOf(r) ==
    build_record(r.fields, int(r.fields[3]), r.id,
                 sample_metadata_of(metadata, sample_id_col, r.id))

C5_LastRowWins ==
    Succeeded =>
        LET H == History
            M == MergedRows
        IN
        /\ \A i, j \in 1..Len(aggregated_results) :
            i # j => aggregated_results[i].key # aggregated_results[j].key
        /\ Len(M) = Cardinality(QualifyingKeys(H))
        /\ \A i \in 1..Len(aggregated_results) :
            LET last == H[LastFor(H, aggregated_results[i].key)] IN
            /\ merged_tsv[i + 1] = merged_line(headers_of(metadata), RecordOf(last))
            /\ M[i][1] = last.fields[1]
            /\ M[i][2] = last.fields[2]
            /\ M[i][6] = last.fields[6]
        /\ Len(sampleid) = Len(rows_read)

C5_Witness ==
    /\ Succeeded
    /\ LET H == History IN
        /\ \E i, j \in QualifyingIdx(H) :
            /\ i < j
            /\ H[i].key = H[j].key
            /\ H[i].file # H[j].file
            /\ H[i].line # H[j].line
        /\ \E i, j \in QualifyingIdx(H) :
            /\ i < j
            /\ H[i].file = H[j].file
            /\ H[i].fields[5] = H[j].fields[5]
            /\ H[i].line # H[j].line

(* C6: sample_ids.csv lists, under its column name, one entry per line     *)
(* read from the reports, in the order read and without deduplication:     *)
(* the sample id of the line's file, whatever the rank, the count and the  *)
(* metadata.                                                               *)
C6_SampleIdList ==
    sample_ids_csv # NotWritten =>
        /\ Len(sample_ids_csv) = 1 + Len(rows_read)
        /\ sample_ids_csv[1] = <<"Sample_IDs">>
        /\ \A j \in 1..Len(rows_read) :
            /\ sample_ids_csv[j + 1] = DerivedId(rows_read[j].file)
            /\ endswith_report(rows_read[j].file)

C6_Witness ==
    /\ Succeeded
    /\ Len(rows_read) = MaxRows
    /\ \E j \in 1..Len(rows_read) : rows_read[j].line = RowGenus
    /\ \E j \in 1..Len(rows_read) :
        /\ rows_read[j].line = RowHomo
        /\ DerivedId(rows_read[j].file) \notin MetadataIds
    /\ \E i, j \in 1..Len(rows_read) : i # j /\ sample_ids_csv[i + 1] = sample_ids_csv[j + 1]
    /\ Len(aggregated_results) = 0

(* C7: the table read from metadata_file is used when the path is given    *)
(* and exists, whatever sample_id_df is; otherwise sample_id_df when it is *)
(* given; otherwise the call returns None, having opened no report and     *)
(* written neither file.  The identifier column is the table's first.      *)
C7_MetadataResolution ==
    a_pc # "start" =>
        IF call.metadata_file # None /\ call.file_exists
        THEN metadata = call.file_table /\ sample_id_col = call.file_table.columns[1]
        ELSE IF call.sample_id_df.given
        THEN metadata = call.sample_id_df /\ sample_id_col = call.sample_id_df.columns[1]
        ELSE /\ a_pc = "done"
             /\ a_result = None
             /\ opened = <<>>
             /\ rows_read = <<>>
             /\ merged_tsv = NotWritten
             /\ sample_ids_csv = NotWritten

C7_Witness ==
    /\ Succeeded
    /\ call.metadata_file # None /\ call.file_exists
    /\ call.sample_id_df.given
    /\ call.sample_id_df # call.file_table
    /\ metadata = call.file_table
    /\ Len(aggregated_results) > 0

(* C8: every data row written to merged_kraken1.tsv splits on the tab into *)
(* as many fields as the header: the seven fixed names, then the metadata  *)
(* columns but the first.                                                  *)
C8_RoundTrip ==
    MergedWritten =>
        LET M == MergedRows IN
        \A i \in 1..Len(M) : Len(M[i]) = Len(FixedHeaders) + Len(metadata.columns) - 1

(* C9: a malformed row in any report makes the call return None with       *)
(* neither merged_kraken1.tsv nor sample_ids.csv written, however many     *)
(* rows and reports were read before it.                                   *)
C9_AllOrNothing ==
    (\E j \in 1..Len(rows_read) : RowRead(rows_read[j]).malformed) =>
        /\ a_pc = "done"
        /\ a_result = None
        /\ merged_tsv = NotWritten
        /\ sample_ids_csv = NotWritten

C9_Witness ==
    /\ a_pc = "done"
    /\ a_result = None
    /\ Len(opened) = 2
    /\ Len(rows_read) = MaxRows
    /\ rows_read[MaxRows].line \in {RowShort, RowNotInt, RowBlank}
    /\ Len(aggregated_results) > 0
    /\ merged_tsv = NotWritten

(* C10: in every row of the merged table the SampleID column is the sample *)
(* id of the report the row was built from and the six report columns are  *)
(* the fields of a row of that report that passed the filter, whatever the *)
(* names of the metadata columns.                                          *)
C10_RecordFidelity ==
    MergedWritten =>
        LET H == History IN
        \A i \in 1..Len(aggregated_results) :
            \E j \in QualifyingIdx(H) :
                /\ H[j].key = aggregated_results[i].key
                /\ \A c \in 1..6 :
                    py_str(aggregated_results[i].data[FixedHeaders[c]]) = H[j].fields[c]
                /\ py_str(aggregated_results[i].data["SampleID"]) = H[j].id

====
